---- MODULE Spec2Model ----
(***************************************************************************)
(* PhishGuard API: the scan / feedback request handlers of app.py, the     *)
(* two tables of models.py they write (scan_history, user_statistics) and  *)
(* the lifecycle sweeps of database_utils.py.                              *)
(*                                                                         *)
(* Storage is the SQLite file database app.py configures, reached through  *)
(* one SQLAlchemy session per request.  A SELECT reads the committed       *)
(* state; the writes of a session reach the committed state at its         *)
(* commit (or, in submit_feedback, between the autoflush of the pending    *)
(* scan UPDATE and the commit, during which SQLite's write lock keeps      *)
(* every other writer out: that span is one step here).  An UPDATE of a    *)
(* mapped row writes only the columns whose value differs from the value   *)
(* the session loaded.                                                     *)
(*                                                                         *)
(* Real numbers (risk scores, the running mean) are exact rationals        *)
(* <<numerator, denominator>> in lowest terms.  Time is a counter of       *)
(* clock ticks.                                                            *)
(***************************************************************************)
EXTENDS Integers, Sequences, FiniteSets, TLC

\* ------------------------------------------------------------------ bounds

\* Requests accepted (scans inserted, feedback submissions that found their
\* scan) plus clock ticks, since the server started.
MaxOps == 2

\* ------------------------------------------------------- rational numbers

RECURSIVE GCD(_, _)
GCD(a, b) == IF b = 0 THEN a ELSE GCD(b, a % b)

Abs(n) == IF n < 0 THEN -n ELSE n

\* n/d in lowest terms, d > 0.
Rat(n, d) ==
    LET g == GCD(Abs(n), Abs(d))
        s == IF d < 0 THEN -1 ELSE 1
    IN  <<(s * n) \div g, (s * d) \div g>>

RAdd(x, y) == Rat(x[1] * y[2] + y[1] * x[2], x[2] * y[2])
RMulInt(x, k) == Rat(x[1] * k, x[2])
RDivInt(x, k) == Rat(x[1], x[2] * k)
RLess(x, y) == x[1] * y[2] < y[1] * x[2]
RGreater(x, y) == RLess(y, x)

\* round(x, 4) for a rational x >= 0, halves to the even neighbour.
Round4(x) ==
    LET n == x[1] * 10000
        d == x[2]
        q == n \div d
        rest == n % d
        up == 2 * rest > d \/ (2 * rest = d /\ q % 2 = 1)
    IN  Rat(IF up THEN q + 1 ELSE q, 10000)

\* ------------------------------------------------------------------ values

\* Python's None / SQL NULL in a string-valued place.
None == "<None>"
\* A key the request's JSON body does not hold.
Missing == <<"<missing>">>
\* A timestamp column holding NULL.
NoTime == -1

\* Falsy as `x is None`.
FalsyNoneOnly(s) == s = None

\* `not x` for an optional string.
Falsy(s) == s = None \/ s = ""

Workers == {"w1", "w2"}
UserKeys == {"u1", "u2"}
UserIds == {None, ""} \cup UserKeys
DeviceIds == {"d1"}
RemoteAddr == "10.0.0.1"
UserAgent == "PhishGuard Android/1.0"
FeedbackKinds == {"CORRECT", "INCORRECT", "UNSURE"}
FeedbackInputs == FeedbackKinds \cup {None, "BOGUS"}

\* The JSON "message" values a scan request is sent with: none, the empty
\* string, white space only, and two texts (with white space around them).
Hi == <<"h", "i", " ">>
ClickHere == <<" ", "C", "l", "i", "c", "k">>
MessageInputs == {Missing, <<>>, <<" ">>, Hi, ClickHere}

\* The (message, user_id) pairs scan requests are sent with.
ScanInputs ==
    {<<m, None>> : m \in MessageInputs \ {ClickHere}}
        \cup {<<ClickHere, "">>}
        \cup {<<m, u>> : m \in {Hi, ClickHere}, u \in UserKeys}

\* The ages (in clock ticks) the sweeps are run with.
SweepAges == {0, 1}

\* ------------------------------------------------------------------- text

IsSpace(c) == c \in {" ", "\t", "\n"}

RECURSIVE LStrip(_)
LStrip(t) == IF t # <<>> /\ IsSpace(Head(t)) THEN LStrip(Tail(t)) ELSE t

RECURSIVE RStrip(_)
RStrip(t) ==
    IF t # <<>> /\ IsSpace(t[Len(t)]) THEN RStrip(SubSeq(t, 1, Len(t) - 1)) ELSE t

\* str.strip()
Strip(t) == RStrip(LStrip(t))

LowerChar(c) ==
    CASE c = "C" -> "c"
      [] c = "U" -> "u"
      [] c = "R" -> "r"
      [] c = "G" -> "g"
      [] c = "E" -> "e"
      [] c = "N" -> "n"
      [] c = "T" -> "t"
      [] OTHER -> c

\* str.lower()
Lower(t) == [i \in 1..Len(t) |-> LowerChar(t[i])]

\* sub in t
Contains(t, sub) ==
    \E i \in 1..(Len(t) - Len(sub) + 1) : SubSeq(t, i, i + Len(sub) - 1) = sub

\* The texts scan_message classifies: the stripped, non-empty messages.
Texts == {Strip(m) : m \in MessageInputs \ {Missing}} \ {<<>>}

\* No model file was found at startup (ml_model is None).
NoModel == [loaded |-> FALSE]

\* The trained models load_models may find.  The artifact is opaque, and a
\* fixed function of the text once loaded: this one answers by the text's
\* length.
ModelArtifacts == { [loaded |-> TRUE, short |-> <<1, 2>>, long |-> <<1, 1>>] }

\* ml_model.predict_proba(vectorizer.transform([text]))[0][1]
predict_proba(model, text) == IF Len(text) > 2 THEN model.long ELSE model.short

Urgent == <<"u", "r", "g", "e", "n", "t">>
Click == <<"c", "l", "i", "c", "k">>

\* hashlib.sha256(text).hexdigest(): a collision-free function of the text.
hash_message(text) == <<"sha256", text>>

\* ------------------------------------------------------------- classifier

Half == <<1, 2>>

\* HeuristicScore without lower().
HeuristicScoreCased(text) ==
    IF Contains(text, Urgent) \/ Contains(text, Click) THEN <<3, 4>> ELSE <<1, 4>>

HeuristicScore(text) ==
    IF Contains(Lower(text), Urgent) \/ Contains(Lower(text), Click)
    THEN <<3, 4>> ELSE <<1, 4>>

HeuristicConfidence(r) ==
    IF RGreater(r, <<7, 10>>) \/ RLess(r, <<3, 10>>) THEN "HIGH" ELSE "MEDIUM"

\* ModelConfidence with the outer thresholds inclusive.
ModelConfidenceInclusive(r) ==
    IF ~RLess(r, <<4, 5>>) \/ ~RGreater(r, <<1, 5>>) THEN "HIGH"
    ELSE IF RGreater(r, <<3, 5>>) \/ RLess(r, <<2, 5>>) THEN "MEDIUM"
    ELSE "LOW"

ModelConfidence(r) ==
    IF RGreater(r, <<4, 5>>) \/ RLess(r, <<1, 5>>) THEN "HIGH"
    ELSE IF RGreater(r, <<3, 5>>) \/ RLess(r, <<2, 5>>) THEN "MEDIUM"
    ELSE "LOW"

\* classify_message(text) under the model loaded at startup, if any.
classify_message(text, model) ==
    LET r == IF model.loaded THEN predict_proba(model, text) ELSE HeuristicScore(text)
    IN  [ is_phishing |-> RGreater(r, Half),
          risk_score |-> r,
          confidence |->
              IF model.loaded THEN ModelConfidence(r) ELSE HeuristicConfidence(r) ]

\* ------------------------------------------------------------------ state

VARIABLES
    ml_model,         \* the model load_models found, or NoModel
    scan_history,     \* committed rows of the scan_history table
    user_statistics,  \* committed rows of user_statistics, by user_id
    now,              \* datetime.utcnow()
    ops,              \* requests accepted and clock ticks so far
    pc,               \* where each request worker stands in its handler
    loc,              \* each worker's locals: its request and the rows its session loaded
    response,         \* the response most recently sent: the endpoint and the status
    fed               \* per user: the risk scores of the update_user_statistics
                      \* calls that returned (their number, sum and maximum)

vars ==
    <<ml_model, scan_history, user_statistics, now, ops, pc, loc,
      response, fed>>

\* No row under this key.
NoRow == [exists |-> FALSE]
NoScan == [id |-> 0]

IdleLoc ==
    [ user_id |-> None, is_phishing |-> FALSE, risk_score |-> <<0, 1>>, scan_id |-> 0,
      stats |-> NoRow, scan |-> NoScan, feedback |-> None,
      limit |-> 0, offset |-> 0, phishing_only |-> FALSE, scans |-> <<>> ]

NoFed == [n |-> 0, sum |-> <<0, 1>>, max |-> <<0, 1>>]

\* ------------------------------------------------------------ scan_history

Ids(table) == {r.id : r \in table}

\* ScanHistory.query.get(id)
GetScan(table, id) ==
    IF id \in Ids(table) THEN CHOOSE r \in table : r.id = id ELSE NoScan

SetMax(S) == CHOOSE m \in S : \A x \in S : x <= m

\* The rowid SQLite gives an INTEGER PRIMARY KEY row inserted without an id:
\* one more than the largest rowid in the table.
NextId(table) == IF table = {} THEN 1 ELSE SetMax(Ids(table)) + 1

\* The ScanHistory row with the risk_score of the response.
ScanRecordRounded(id, user_id, device_id, text, c, t) ==
    [ id |-> id,
      user_id |-> user_id,
      device_id |-> device_id,
      message_text |-> text,
      message_hash |-> hash_message(text),
      is_phishing |-> c.is_phishing,
      risk_score |-> Round4(c.risk_score),
      confidence_level |-> c.confidence,
      created_at |-> t,
      user_feedback |-> None,
      feedback_timestamp |-> NoTime,
      ip_address |-> RemoteAddr,
      user_agent |-> UserAgent ]

\* The ScanHistory row scan_message builds.
ScanRecord(id, user_id, device_id, text, c, t) ==
    [ id |-> id,
      user_id |-> user_id,
      device_id |-> device_id,
      message_text |-> text,
      message_hash |-> hash_message(text),
      is_phishing |-> c.is_phishing,
      risk_score |-> c.risk_score,
      confidence_level |-> c.confidence,
      created_at |-> t,
      user_feedback |-> None,
      feedback_timestamp |-> NoTime,
      ip_address |-> RemoteAddr,
      user_agent |-> UserAgent ]

\* --------------------------------------------------------- user_statistics

\* The row update_user_statistics adds for a user it found no row for.
\* updated_at, which every UPDATE of the row refreshes, is not kept.
NewStatistics(is_phishing, risk_score, t) ==
    [ exists |-> TRUE,
      total_scans |-> 1,
      phishing_detected |-> IF is_phishing THEN 1 ELSE 0,
      safe_messages |-> IF is_phishing THEN 0 ELSE 1,
      average_risk_score |-> risk_score,
      highest_risk_score |-> risk_score,
      first_scan_date |-> t,
      last_scan_date |-> t,
      feedback_provided |-> 0,
      correct_predictions |-> 0,
      incorrect_predictions |-> 0 ]

\* RunningAverage weighting the old mean by the new count.
RunningAverageNewCount(average, total_scans, risk_score) ==
    RDivInt(RAdd(RMulInt(average, total_scans), risk_score), total_scans)

\* (average * (total_scans - 1) + risk_score) / total_scans, total_scans
\* being the count already incremented.
RunningAverage(average, total_scans, risk_score) ==
    RDivInt(RAdd(RMulInt(average, total_scans - 1), risk_score), total_scans)

\* HighestRisk with the comparison turned round.
HighestRiskLess(highest, risk_score) ==
    IF RLess(risk_score, highest) THEN risk_score ELSE highest

HighestRisk(highest, risk_score) ==
    IF RGreater(risk_score, highest) THEN risk_score ELSE highest

\* The attributes of a loaded row after update_user_statistics changed them.
UpdatedStatistics(s, is_phishing, risk_score, t) ==
    [ s EXCEPT
        !.total_scans = s.total_scans + 1,
        !.phishing_detected = IF is_phishing THEN s.phishing_detected + 1 ELSE s.phishing_detected,
        !.safe_messages = IF is_phishing THEN s.safe_messages ELSE s.safe_messages + 1,
        !.average_risk_score =
            RunningAverage(s.average_risk_score, s.total_scans + 1, risk_score),
        !.highest_risk_score = HighestRisk(s.highest_risk_score, risk_score),
        !.last_scan_date = t ]

\* FeedbackStatistics with `else` for `elif feedback == 'INCORRECT'`.
FeedbackStatisticsElse(s, feedback) ==
    [ s EXCEPT
        !.feedback_provided = s.feedback_provided + 1,
        !.correct_predictions =
            IF feedback = "CORRECT" THEN s.correct_predictions + 1 ELSE s.correct_predictions,
        !.incorrect_predictions =
            IF feedback # "CORRECT"
            THEN s.incorrect_predictions + 1 ELSE s.incorrect_predictions ]

\* The attributes of a loaded row after submit_feedback changed them.
FeedbackStatistics(s, feedback) ==
    [ s EXCEPT
        !.feedback_provided = s.feedback_provided + 1,
        !.correct_predictions =
            IF feedback = "CORRECT" THEN s.correct_predictions + 1 ELSE s.correct_predictions,
        !.incorrect_predictions =
            IF feedback = "INCORRECT"
            THEN s.incorrect_predictions + 1 ELSE s.incorrect_predictions ]

\* The committed row after the session's UPDATE of it: the columns whose
\* value the session changed since it loaded the row are written, the others
\* keep what is committed.
FlushUpdate(loaded, modified, committed) ==
    [ col \in DOMAIN committed |->
        IF modified[col] # loaded[col] THEN modified[col] ELSE committed[col] ]

\* The scores fed so far and one more.
RMax(x, y) == IF RLess(x, y) THEN y ELSE x

Fed(f, risk_score) ==
    [ n |-> f.n + 1,
      sum |-> RAdd(f.sum, risk_score),
      max |-> IF f.n = 0 THEN risk_score ELSE RMax(f.max, risk_score) ]

\* ------------------------------------------------------------------ start

\* phishguard.db outlives the server process: it starts on the database an
\* earlier run left.  Two such databases: the empty one of the first start,
\* and the one a single scan of user "u1" leaves.
SeedScan(model) ==
    ScanRecord(1, "u1", "d1", Strip(Hi), classify_message(Strip(Hi), model), 0)

Init ==
    /\ ml_model \in {NoModel} \cup ModelArtifacts
    /\ now = 0
    /\ ops = 0
    /\ pc = [p \in Workers |-> "idle"]
    /\ loc = [p \in Workers |-> IdleLoc]
    /\ response = [op |-> "none", code |-> 0]
    /\ \/ /\ scan_history = {}
          /\ user_statistics = [u \in UserKeys |-> NoRow]
          /\ fed = [u \in UserKeys |-> NoFed]
       \/ LET r == SeedScan(ml_model)
          IN  /\ scan_history = {r}
              /\ user_statistics =
                     [u \in UserKeys |->
                         IF u = r.user_id
                         THEN NewStatistics(r.is_phishing, r.risk_score, r.created_at)
                         ELSE NoRow]
              /\ fed = [u \in UserKeys |->
                           IF u = r.user_id THEN Fed(NoFed, r.risk_score) ELSE NoFed]

\* --------------------------------------------------------------- requests

Respond(op, code) == response' = [op |-> op, code |-> code]

Finish(p) ==
    /\ pc' = [pc EXCEPT ![p] = "idle"]
    /\ loc' = [loc EXCEPT ![p] = IdleLoc]

\* ScanInputError testing the message as sent, not stripped.
ScanInputErrorNoStrip(message) ==
    IF message = Missing THEN 400
    ELSE IF message = <<>> THEN 400
    ELSE 0

\* scan_message's input checks: the status of the error response, 0 for none.
ScanInputError(message) ==
    IF message = Missing THEN 400
    ELSE IF Strip(message) = <<>> THEN 400
    ELSE 0

\* scan_message, up to the commit of the new scan_history row; ok is whether
\* that commit succeeds.  With no user_id, update_user_statistics returns at
\* once and the handler responds.
ScanRequest(p, message, user_id, device_id, ok) ==
    /\ pc[p] = "idle"
    /\ IF ScanInputError(message) # 0
       THEN /\ Respond("scan", ScanInputError(message))
            /\ UNCHANGED <<ml_model, scan_history, user_statistics, now, ops, pc, loc, fed>>
       ELSE /\ ops < MaxOps
            /\ LET text == Strip(message)
                   c == classify_message(text, ml_model)
                   id == NextId(scan_history)
               IN  IF ~ok
                   THEN /\ Respond("scan", 500)
                        /\ UNCHANGED <<scan_history, ops, pc, loc>>
                   ELSE /\ scan_history' =
                               scan_history \cup
                                   {ScanRecord(id, user_id, device_id, text, c, now)}
                        /\ ops' = ops + 1
                        /\ IF Falsy(user_id)
                           THEN /\ Respond("scan", 200)
                                /\ UNCHANGED <<pc, loc>>
                           ELSE /\ pc' = [pc EXCEPT ![p] = "upd_read"]
                                /\ loc' = [loc EXCEPT ![p] =
                                       [ IdleLoc EXCEPT
                                           !.user_id = user_id,
                                           !.is_phishing = c.is_phishing,
                                           !.risk_score = c.risk_score,
                                           !.scan_id = id ]]
                                /\ UNCHANGED response
            /\ UNCHANGED <<ml_model, user_statistics, now, fed>>

\* update_user_statistics: stats = UserStatistics.query.get(user_id)
UpdRead(p) ==
    /\ pc[p] = "upd_read"
    /\ pc' = [pc EXCEPT ![p] = "upd_commit"]
    /\ loc' = [loc EXCEPT ![p].stats = user_statistics[loc[p].user_id]]
    /\ UNCHANGED <<ml_model, scan_history, user_statistics, now, ops,
                   response, fed>>

\* The committed user_statistics row that update_user_statistics's commit
\* leaves for a session that loaded `loaded`, NoRow when the commit raises
\* (the INSERT of a key that is there by now).
CommitStatistics(loaded, committed, is_phishing, risk_score, t) ==
    IF loaded = NoRow
    THEN IF committed = NoRow THEN NewStatistics(is_phishing, risk_score, t) ELSE NoRow
    ELSE FlushUpdate(loaded, UpdatedStatistics(loaded, is_phishing, risk_score, t),
                     committed)

\* update_user_statistics: the changes to the loaded row and db.session.commit();
\* then scan_message's response.  A commit that raises ends in scan_message's
\* except clause: rollback and a 500.
UpdCommit(p, ok) ==
    /\ pc[p] = "upd_commit"
    /\ LET u == loc[p].user_id
           row == CommitStatistics(loc[p].stats, user_statistics[u],
                                   loc[p].is_phishing, loc[p].risk_score, now)
       IN  IF ok /\ row # NoRow
           THEN /\ user_statistics' = [user_statistics EXCEPT ![u] = row]
                /\ fed' = [fed EXCEPT ![u] = Fed(fed[u], loc[p].risk_score)]
                /\ Respond("scan", 200)
           ELSE /\ Respond("scan", 500)
                /\ UNCHANGED <<user_statistics, fed>>
    /\ Finish(p)
    /\ UNCHANGED <<ml_model, scan_history, now, ops>>

\* submit_feedback's input checks: the status of the error response, 0 for
\* none.  A scan_id of 0 stands for a request without one.
FeedbackInputError(scan_id, feedback) ==
    IF scan_id = 0 \/ Falsy(feedback) THEN 400
    ELSE IF feedback \notin {"CORRECT", "INCORRECT", "UNSURE"} THEN 400
    ELSE 0

\* submit_feedback, up to scan = ScanHistory.query.get(scan_id).
FeedbackRequest(p, scan_id, feedback) ==
    /\ pc[p] = "idle"
    /\ LET err == FeedbackInputError(scan_id, feedback)
           scan == GetScan(scan_history, scan_id)
       IN  IF err # 0
           THEN /\ Respond("feedback", err)
                /\ UNCHANGED <<ops, pc, loc>>
           ELSE IF scan = NoScan
           THEN /\ Respond("feedback", 404)
                /\ UNCHANGED <<ops, pc, loc>>
           ELSE /\ ops < MaxOps
                /\ ops' = ops + 1
                /\ pc' = [pc EXCEPT ![p] = "fb_commit"]
                /\ loc' = [loc EXCEPT ![p] =
                       [IdleLoc EXCEPT !.scan = scan, !.feedback = feedback]]
                /\ UNCHANGED response
    /\ UNCHANGED <<ml_model, scan_history, user_statistics, now, fed>>

\* FeedbackScans with the scan's change committed on its own, before the
\* statistics are.
FeedbackScansEager(table, scan, feedback, t, ok) ==
    { IF r.id = scan.id
      THEN FlushUpdate(scan,
                       [scan EXCEPT !.user_feedback = feedback,
                                    !.feedback_timestamp = t],
                       r)
      ELSE r : r \in table }

\* scan_history after submit_feedback's commit for a session that loaded
\* `scan` and set its user_feedback and feedback_timestamp; ok is whether
\* the commit succeeds.
FeedbackScans(table, scan, feedback, t, ok) ==
    IF ok
    THEN { IF r.id = scan.id
           THEN FlushUpdate(scan,
                            [scan EXCEPT !.user_feedback = feedback,
                                         !.feedback_timestamp = t],
                            r)
           ELSE r : r \in table }
    ELSE table

\* FeedbackUserStatistics adding the row a user lacks.
FeedbackUserStatisticsCreate(stats, scan, feedback, ok) ==
    IF ok /\ ~Falsy(scan.user_id)
    THEN IF stats[scan.user_id] # NoRow
         THEN [stats EXCEPT ![scan.user_id] = FeedbackStatistics(@, feedback)]
         ELSE [stats EXCEPT ![scan.user_id] =
                  FeedbackStatistics(
                      [NewStatistics(scan.is_phishing, scan.risk_score, scan.created_at)
                          EXCEPT !.total_scans = 0, !.phishing_detected = 0,
                                 !.safe_messages = 0],
                      feedback)]
    ELSE stats

\* user_statistics after submit_feedback's commit: the row of the loaded
\* scan's user, when the scan has a user and the user a row, is read and
\* changed under the write lock the flush of the scan UPDATE took.
FeedbackUserStatistics(stats, scan, feedback, ok) ==
    IF ok /\ ~Falsy(scan.user_id)
    THEN IF stats[scan.user_id] # NoRow
         THEN [stats EXCEPT ![scan.user_id] = FeedbackStatistics(@, feedback)]
         ELSE stats
    ELSE stats

\* submit_feedback from the changes to the loaded scan to its response.  The
\* UPDATE of a scan row that is gone by now raises, like a failing commit:
\* rollback and a 500.
FeedbackCommit(p, ok) ==
    /\ pc[p] = "fb_commit"
    /\ LET scan == loc[p].scan
           done == ok /\ scan.id \in Ids(scan_history)
       IN  /\ scan_history' = FeedbackScans(scan_history, scan, loc[p].feedback, now, done)
           /\ user_statistics' =
                  FeedbackUserStatistics(user_statistics, scan, loc[p].feedback, done)
           /\ Respond("feedback", IF done THEN 200 ELSE 500)
    /\ Finish(p)
    /\ UNCHANGED <<ml_model, now, ops, fed>>

\* ----------------------------------------------------------------- sweeps

\* Older with `<=` for `<`.
OlderOrEqual(r, days) == r.created_at <= now - days

\* ScanHistory.created_at < cutoff
Older(r, days) == r.created_at < now - days

\* The rows the sweeps' filter matches.
OldScans(days) == {r \in scan_history : Older(r, days)}

\* What a sweep returns when its commit succeeds: the number of rows its
\* statement matched.  The sweeps are run from a maintenance shell and answer
\* no request, so the number is kept in no variable.
Matched(days) == Cardinality(OldScans(days))

\* DataManagement.delete_old_scans(days); ok is whether its commit succeeds.
delete_old_scans(days, ok) ==
    /\ scan_history' = IF ok THEN scan_history \ OldScans(days) ELSE scan_history
    /\ UNCHANGED <<ml_model, user_statistics, now, ops, pc, loc,
                   response, fed>>

\* Anonymized clearing the message as well.
AnonymizedText(r) ==
    [r EXCEPT !.user_id = None, !.device_id = None, !.ip_address = None,
              !.user_agent = None, !.message_text = <<>>]

\* Anonymized clearing the user_id only.
AnonymizedUserOnly(r) == [r EXCEPT !.user_id = None]

\* Anonymized keeping the user_id in the device_id.
AnonymizedShift(r) ==
    [r EXCEPT !.user_id = None, !.device_id = r.user_id, !.ip_address = None,
              !.user_agent = None]

\* The row after the sweep's UPDATE.
Anonymized(r) ==
    [r EXCEPT !.user_id = None, !.device_id = None, !.ip_address = None,
              !.user_agent = None]

\* The table after the sweep's UPDATE of the rows its filter matches.
AnonymizedLog(table, days) ==
    {IF Older(r, days) THEN Anonymized(r) ELSE r : r \in table}

\* DataManagement.anonymize_old_data(days); ok is whether its commit succeeds.
anonymize_old_data(days, ok) ==
    /\ scan_history' =
           IF ok THEN AnonymizedLog(scan_history, days) ELSE scan_history
    /\ UNCHANGED <<ml_model, user_statistics, now, ops, pc, loc,
                   response, fed>>

\* ------------------------------------------------------------------ clock

\* No request is in flight.
Quiet == \A p \in Workers : pc[p] = "idle"

\* The clock ticks; a request takes far less than a tick.
Tick ==
    /\ Quiet
    /\ ops < MaxOps
    /\ now' = now + 1
    /\ ops' = ops + 1
    /\ UNCHANGED <<ml_model, scan_history, user_statistics, pc, loc, response, fed>>

\* ---------------------------------------------------------- specifications

ScanIdInputs == 0..MaxOps

Scan ==
    \E p \in Workers, in \in ScanInputs, device_id \in DeviceIds, ok \in BOOLEAN :
        ScanRequest(p, in[1], in[2], device_id, ok)

Feedback ==
    \E p \in Workers, scan_id \in ScanIdInputs, feedback \in FeedbackInputs :
        FeedbackRequest(p, scan_id, feedback)

Read == \E p \in Workers : UpdRead(p)

Update == \E p \in Workers, ok \in BOOLEAN : UpdCommit(p, ok)

FeedbackDone == \E p \in Workers, ok \in BOOLEAN : FeedbackCommit(p, ok)

Retention == \E days \in SweepAges, ok \in BOOLEAN : delete_old_scans(days, ok)

Anonymization == \E days \in SweepAges, ok \in BOOLEAN : anonymize_old_data(days, ok)

\* Requests served by concurrent workers, sweeps run beside them.
Next ==
    \/ Scan
    \/ Read
    \/ Update
    \/ Feedback
    \/ FeedbackDone
    \/ Retention
    \/ Anonymization
    \/ Tick

Spec == Init /\ [][Next]_vars

\* One request or sweep at a time, each run to its end before the next starts.
NextSerial ==
    \/ Quiet /\ Scan
    \/ Read
    \/ Update
    \/ Quiet /\ Feedback
    \/ FeedbackDone
    \/ Quiet /\ Retention
    \/ Quiet /\ Anonymization
    \/ Tick

SpecSerial == Init /\ [][NextSerial]_vars

\* ------------------------------------------------------------------ claims

Rows == {u \in UserKeys : user_statistics[u] # NoRow}

\* C1: requests served one at a time: for every user whose
\* update_user_statistics calls returned N >= 1 times, total_scans = N and
\* average_risk_score = (sum of the N risk scores passed) / N, whatever the
\* other users' calls in between.
C1_RunningMeanIsExact ==
    \A u \in UserKeys :
        fed[u].n >= 1 =>
            /\ user_statistics[u] # NoRow
            /\ user_statistics[u].total_scans = fed[u].n
            /\ RMulInt(user_statistics[u].average_risk_score, fed[u].n) = fed[u].sum

\* C1's case: scores that differ were fed for one user, and a score for
\* another user.
C1_Witness ==
    \E u, v \in UserKeys :
        /\ u # v
        /\ fed[u].n >= 2
        /\ fed[v].n >= 1
        /\ RLess(user_statistics[u].average_risk_score, fed[u].max)

\* C6: requests served one at a time: highest_risk_score is the maximum of
\* the risk scores passed for the user.
C6_HighestIsMax ==
    \A u \in UserKeys :
        fed[u].n >= 1 =>
            /\ user_statistics[u] # NoRow
            /\ user_statistics[u].highest_risk_score = fed[u].max

\* C6's case: a user's latest score was below an earlier one.
C6_Witness ==
    \E u \in UserKeys :
        /\ fed[u].n >= 3
        /\ user_statistics[u] # NoRow
        /\ user_statistics[u].highest_risk_score = fed[u].max
        /\ \E r \in scan_history :
               /\ r.user_id = u
               /\ r.id = SetMax(Ids(scan_history))
               /\ RLess(r.risk_score, fed[u].max)

\* C2: requests served concurrently: no update_user_statistics call that
\* returned is lost: total_scans counts them all, and the mean and the
\* maximum reflect every score passed.
C2_NoLostUpdate ==
    \A u \in UserKeys :
        fed[u].n >= 1 =>
            /\ user_statistics[u] # NoRow
            /\ user_statistics[u].total_scans = fed[u].n
            /\ RMulInt(user_statistics[u].average_risk_score, fed[u].n) = fed[u].sum
            /\ user_statistics[u].highest_risk_score = fed[u].max

\* C3: requests served concurrently: every user_statistics row has
\* total_scans = phishing_detected + safe_messages.
C3_TotalIsPhishingPlusSafe ==
    \A u \in Rows :
        user_statistics[u].total_scans =
            user_statistics[u].phishing_detected + user_statistics[u].safe_messages

RECURSIVE SumScores(_)
SumScores(S) ==
    IF S = {} THEN <<0, 1>>
    ELSE LET r == CHOOSE x \in S : TRUE
         IN  RAdd(r.risk_score, SumScores(S \ {r}))

ScansOf(u) == {r \in scan_history : r.user_id = u}

\* C4: in every committed state with no request in flight, each user's
\* average_risk_score is the mean of risk_score over the scan_history rows
\* of that user.
C4_MeanMatchesLog ==
    Quiet =>
        \A u \in Rows :
            /\ ScansOf(u) # {}
            /\ RMulInt(user_statistics[u].average_risk_score, Cardinality(ScansOf(u)))
                   = SumScores(ScansOf(u))

\* C5: a scan request for a user ends with its scan_history row and its
\* statistics update both committed, or neither.
C5_ScanAllOrNothing ==
    [][\A p \in Workers :
           (pc[p] = "upd_commit" /\ pc'[p] = "idle") =>
               LET u == loc[p].user_id
               IN  (loc[p].scan_id \in Ids(scan_history')) <=> (fed'[u].n = fed[u].n + 1)]_vars

\* A worker's submit_feedback reaches its response in this step.
FeedbackEnds(p) == pc[p] = "fb_commit" /\ pc'[p] = "idle"

One(b) == IF b THEN 1 ELSE 0

\* C7: a successful feedback submission on a scan whose user has a row adds
\* 1 to that row's feedback_provided, 1 to correct_predictions only for
\* CORRECT and to incorrect_predictions only for INCORRECT, and changes no
\* other column of the row and no other row.
C7_FeedbackCounts ==
    [][\A p \in Workers :
           LET u == loc[p].scan.user_id
               fb == loc[p].feedback
           IN  ( /\ FeedbackEnds(p)
                 /\ response'.code = 200
                 /\ ~Falsy(u)
                 /\ user_statistics[u] # NoRow )
               => /\ user_statistics'[u] =
                         [ user_statistics[u] EXCEPT
                             !.feedback_provided = @ + 1,
                             !.correct_predictions = @ + One(fb = "CORRECT"),
                             !.incorrect_predictions = @ + One(fb = "INCORRECT") ]
                  /\ \A v \in UserKeys \ {u} : user_statistics'[v] = user_statistics[v]]_vars

\* C7's case: an INCORRECT feedback was counted for a user with scans.
C7_Witness ==
    /\ response = [op |-> "feedback", code |-> 200]
    /\ \E u \in Rows :
           /\ user_statistics[u].total_scans >= 1
           /\ user_statistics[u].feedback_provided = 1
           /\ user_statistics[u].incorrect_predictions = 1
           /\ user_statistics[u].correct_predictions = 0

\* r2 is r but for the two feedback columns.
SameButFeedback(r, r2) ==
    r2 = [r EXCEPT !.user_feedback = r2.user_feedback,
                   !.feedback_timestamp = r2.feedback_timestamp]

\* C8: a successful feedback submission on a scan without a user_id, or
\* whose user has no row, leaves user_statistics as it is (no row changed,
\* none created) and changes nothing in scan_history but that scan's
\* user_feedback and feedback_timestamp.
C8_FeedbackWithoutRow ==
    [][\A p \in Workers :
           LET u == loc[p].scan.user_id
               id == loc[p].scan.id
           IN  ( /\ FeedbackEnds(p)
                 /\ response'.code = 200
                 /\ (Falsy(u) \/ user_statistics[u] = NoRow) )
               => /\ user_statistics' = user_statistics
                  /\ Ids(scan_history') = Ids(scan_history)
                  /\ Cardinality(scan_history') = Cardinality(scan_history)
                  /\ \A r \in scan_history :
                         IF r.id = id
                         THEN /\ SameButFeedback(r, GetScan(scan_history', id))
                              /\ GetScan(scan_history', id).user_feedback \in FeedbackKinds
                              /\ GetScan(scan_history', id).feedback_timestamp = now
                         ELSE r \in scan_history']_vars

\* C8's case: feedback was recorded on a scan with no user_id, or of a user
\* without a row, and no sweep has changed a scan since.
C8_Witness ==
    /\ response = [op |-> "feedback", code |-> 200]
    /\ now = 0
    /\ \E r \in scan_history :
           /\ r.user_feedback \in FeedbackKinds
           /\ (Falsy(r.user_id) \/ user_statistics[r.user_id] = NoRow)
    /\ \A u \in Rows : user_statistics[u].feedback_provided = 0

\* C9: a feedback submission that fails changes neither scan_history nor
\* user_statistics; one that succeeds commits the scan's feedback and the
\* statistics increment in the same step.
C9_FeedbackAtomic ==
    [][\A p \in Workers :
           LET u == loc[p].scan.user_id
               id == loc[p].scan.id
           IN  FeedbackEnds(p) =>
                   IF response'.code = 200
                   THEN /\ GetScan(scan_history', id).user_feedback \in FeedbackKinds
                        /\ GetScan(scan_history', id).feedback_timestamp = now
                        /\ (~Falsy(u) /\ user_statistics[u] # NoRow) =>
                               user_statistics'[u].feedback_provided =
                                   user_statistics[u].feedback_provided + 1
                   ELSE /\ response'.code = 500
                        /\ scan_history' = scan_history
                        /\ user_statistics' = user_statistics]_vars

\* C9's case: a feedback submission on a counted user's scan failed at its
\* commit.
C9_Witness ==
    /\ response = [op |-> "feedback", code |-> 500]
    /\ \E r \in scan_history :
           /\ r.user_id \in Rows
           /\ r.user_feedback = None
           /\ user_statistics[r.user_id].feedback_provided = 0

\* The message is absent, empty or white space only.
EmptyMessage(m) == m = Missing \/ \A i \in 1..Len(m) : m[i] = " "

\* The submission lacks a field, names no feedback kind or no scan there is.
BadFeedback(scan_id, feedback) ==
    \/ scan_id = 0
    \/ feedback = None
    \/ feedback \notin FeedbackKinds
    \/ \A r \in scan_history : r.id # scan_id

\* C10: a scan request whose message is absent or empty after strip gets a
\* 400, a feedback request that lacks a field or names no feedback kind a
\* 400 and one for an unknown scan a 404; each ends the handler and changes
\* neither scan_history nor user_statistics.
C10_InputErrorsChangeNothing ==
    [][/\ \A p \in Workers, in \in ScanInputs, d \in DeviceIds, ok \in BOOLEAN :
              (EmptyMessage(in[1]) /\ ScanRequest(p, in[1], in[2], d, ok)) =>
                  /\ response' = [op |-> "scan", code |-> 400]
                  /\ pc'[p] = "idle"
                  /\ UNCHANGED <<scan_history, user_statistics>>
       /\ \A p \in Workers, id \in ScanIdInputs, fb \in FeedbackInputs :
              (BadFeedback(id, fb) /\ FeedbackRequest(p, id, fb)) =>
                  /\ response'.op = "feedback"
                  /\ response'.code =
                         IF id = 0 \/ fb = None \/ fb \notin FeedbackKinds THEN 400 ELSE 404
                  /\ pc'[p] = "idle"
                  /\ UNCHANGED <<scan_history, user_statistics>>]_vars

\* C10's case: with scans and statistics stored, a feedback request for an
\* unknown scan was answered.
C10_Witness ==
    /\ response = [op |-> "feedback", code |-> 404]
    /\ scan_history # {}
    /\ Rows # {}

\* The scan inputs with a message to classify and no user_id or an empty one.
AnonymousScanInputs ==
    {in \in ScanInputs : ~EmptyMessage(in[1]) /\ in[2] \in {None, ""}}

\* C11: a scan request with an absent or empty user_id ends without a
\* statistics update: user_statistics is left as it is (no row added, none
\* changed), and when the scan's commit succeeds the new scan_history row is
\* there and the request is answered 200.
C11_NoUserNoStatistics ==
    [][\A p \in Workers, in \in AnonymousScanInputs, d \in DeviceIds, ok \in BOOLEAN :
           ScanRequest(p, in[1], in[2], d, ok) =>
               /\ user_statistics' = user_statistics
               /\ pc'[p] = "idle"
               /\ IF ok
                  THEN /\ response' = [op |-> "scan", code |-> 200]
                       /\ Cardinality(scan_history') = Cardinality(scan_history) + 1
                       /\ scan_history \subseteq scan_history'
                       /\ \A r \in scan_history' \ scan_history :
                              /\ r.user_id = in[2]
                              /\ r.created_at = now
                              /\ r.id \notin Ids(scan_history)
                  ELSE /\ response' = [op |-> "scan", code |-> 500]
                       /\ scan_history' = scan_history]_vars

\* C11's case: with a statistics row stored, the latest scan came with an
\* empty user_id and was answered 200.
C11_Witness ==
    /\ Quiet
    /\ response = [op |-> "scan", code |-> 200]
    /\ Rows # {}
    /\ \E r \in scan_history :
           /\ r.id = SetMax(Ids(scan_history))
           /\ r.id > 1
           /\ r.user_id = ""

\* C12: a scan request whose update_user_statistics found no row for its
\* user, and commits when another request has added that row, is answered
\* 200 and counted in the row.
C12_ConflictNotSurfaced ==
    [][\A p \in Workers :
           LET u == loc[p].user_id
           IN  ( /\ pc[p] = "upd_commit"
                 /\ pc'[p] = "idle"
                 /\ loc[p].stats = NoRow
                 /\ user_statistics[u] # NoRow )
               => /\ response' = [op |-> "scan", code |-> 200]
                  /\ user_statistics'[u].total_scans =
                         user_statistics[u].total_scans + 1]_vars

\* C18: after a run of anonymize_old_data, a second run with the same
\* cutoff leaves scan_history as the first run left it.
C18_AnonymizeIdempotent ==
    [][\A days \in SweepAges :
           anonymize_old_data(days, TRUE) =>
               AnonymizedLog(scan_history', days) = scan_history']_vars

\* C18's case: a run of anonymize_old_data has cleared every scan there is.
C18_Witness ==
    /\ now >= 1
    /\ scan_history # {}
    /\ \A r \in scan_history :
           /\ r.created_at < now
           /\ r.user_id = None
           /\ r.device_id = None

\* C19: anonymize_old_data sets user_id, device_id, ip_address and
\* user_agent to null on exactly the scans created before the cutoff; no
\* other field of those scans, no other scan, not the number of scans and no
\* user_statistics row changes.
C19_AnonymizeFrame ==
    [][\A days \in SweepAges :
           anonymize_old_data(days, TRUE) =>
               /\ user_statistics' = user_statistics
               /\ Cardinality(scan_history') = Cardinality(scan_history)
               /\ \A r \in scan_history :
                      IF r.created_at < now - days
                      THEN [r EXCEPT !.user_id = None, !.device_id = None,
                                     !.ip_address = None, !.user_agent = None]
                               \in scan_history'
                      ELSE r \in scan_history']_vars

\* C19's case: with a statistics row stored, the sweep has cleared the older
\* of two scans and left the newer as it was.
C19_Witness ==
    /\ Rows # {}
    /\ \E r, q \in scan_history :
           /\ r.created_at < q.created_at
           /\ r.user_id = None
           /\ r.ip_address = None
           /\ r.user_agent = None
           /\ q.user_id \in UserKeys
           /\ q.ip_address = RemoteAddr

\* C20: delete_old_scans removes exactly the scans created strictly before
\* now - days, returns the number of scans it removed, and changes no scan
\* it leaves.
C20_RetentionDeletesOld ==
    [][\A days \in SweepAges :
           delete_old_scans(days, TRUE) =>
               /\ scan_history' = {r \in scan_history : ~(r.created_at < now - days)}
               /\ Matched(days) = Cardinality(scan_history) - Cardinality(scan_history')]_vars

\* C20's case: the sweep has removed the first scan and left a later one,
\* created at the cutoff.
C20_Witness ==
    /\ 1 \notin Ids(scan_history)
    /\ \E r \in scan_history :
           /\ r.id = 2
           /\ r.created_at = now

\* ---------------------------------------------------------- classification

\* The probabilities a trained model may give: the thresholds of
\* classify_message, the ends of [0, 1] and a value inside each band.
Scores ==
    { <<0, 1>>, <<1, 10>>, <<1, 5>>, <<3, 10>>, <<2, 5>>, <<1, 2>>,
      <<3, 5>>, <<7, 10>>, <<4, 5>>, <<9, 10>>, <<1, 1>> }

\* The trained models load_models may find, by the probabilities they give.
TrainedModels == { [loaded |-> TRUE, short |-> s, long |-> l] : s, l \in Scores }

UrgentNow == <<"U", "R", "G", "E", "N", "T", "!">>

\* Requests without user_id: any message scan_message may get.
ClassifyInputs == MessageInputs \cup {UrgentNow}

\* The server starts on an empty database, with any model or none.
InitClassify ==
    /\ ml_model \in {NoModel} \cup TrainedModels
    /\ now = 0
    /\ ops = 0
    /\ pc = [p \in Workers |-> "idle"]
    /\ loc = [p \in Workers |-> IdleLoc]
    /\ response = [op |-> "none", code |-> 0]
    /\ scan_history = {}
    /\ user_statistics = [u \in UserKeys |-> NoRow]
    /\ fed = [u \in UserKeys |-> NoFed]

\* scan_message for a request without user_id: validation, classify_message
\* and the insert of the scan.
ClassifyScan ==
    \E p \in Workers, message \in ClassifyInputs, device_id \in DeviceIds, ok \in BOOLEAN :
        ScanRequest(p, message, None, device_id, ok)

NextClassify == ClassifyScan

SpecClassify == InitClassify /\ [][NextClassify]_vars

\* n/d < s, for a score s.
Above(s, n, d) == n * s[2] < s[1] * d

\* s < n/d, for a score s.
Below(s, n, d) == s[1] * d < n * s[2]

\* C13: with a model loaded, every scan has confidence HIGH when its
\* risk_score is > 0.8 or < 0.2, else MEDIUM when it is > 0.6 or < 0.4, else
\* LOW (so MEDIUM at 0.2 and 0.8, LOW at 0.4 and 0.6), and is_phishing
\* exactly when its risk_score is > 0.5.
C13_ModelConfidenceTiers ==
    ml_model.loaded =>
        \A r \in scan_history :
            LET s == r.risk_score
            IN  /\ r.confidence_level =
                       IF Above(s, 4, 5) \/ Below(s, 1, 5) THEN "HIGH"
                       ELSE IF Above(s, 3, 5) \/ Below(s, 2, 5) THEN "MEDIUM"
                       ELSE "LOW"
                /\ s \in {<<1, 5>>, <<4, 5>>} => r.confidence_level = "MEDIUM"
                /\ s \in {<<2, 5>>, <<3, 5>>} => r.confidence_level = "LOW"
                /\ r.is_phishing <=> Above(s, 1, 2)

\* C13's case: a loaded model gave one scan 0.8 and another 0.4.
C13_Witness ==
    /\ ml_model.loaded
    /\ \E r, q \in scan_history :
           /\ r.risk_score = <<4, 5>>
           /\ r.confidence_level = "MEDIUM"
           /\ r.is_phishing
           /\ q.risk_score = <<2, 5>>
           /\ q.confidence_level = "LOW"
           /\ ~q.is_phishing

\* C14: with no model loaded, every scan has risk_score 0.75 and is_phishing
\* true when its lowercased text contains "urgent" or "click", risk_score
\* 0.25 and is_phishing false otherwise, and its confidence is never LOW.
C14_HeuristicNeverLow ==
    ~ml_model.loaded =>
        \A r \in scan_history :
            /\ r.confidence_level # "LOW"
            /\ \/ r.risk_score = <<3, 4>> /\ r.is_phishing
               \/ r.risk_score = <<1, 4>> /\ ~r.is_phishing
            /\ r.message_text \in {UrgentNow, <<"C", "l", "i", "c", "k">>} =>
                   /\ r.risk_score = <<3, 4>>
                   /\ r.confidence_level = "HIGH"
            /\ r.message_text = <<"h", "i">> => r.risk_score = <<1, 4>>

\* C14's case: with no model loaded, a scan of "URGENT!" and a scan of "hi".
C14_Witness ==
    /\ ~ml_model.loaded
    /\ \E r, q \in scan_history :
           /\ r.message_text = UrgentNow
           /\ r.is_phishing
           /\ r.confidence_level = "HIGH"
           /\ q.message_text = <<"h", "i">>
           /\ q.confidence_level = "HIGH"

\* -------------------------------------------------------------- analytics

\* The most scans in a log the analytics are run on.
MaxLog == 3

\* The most bins a histogram is asked with.
MaxBins == 4

\* range(n) as a sequence.
Range(n) == [i \in 1..n |-> i - 1]

\* AnalyticsEngine.get_risk_score_distribution(bins): per bin its bounds and
\* the count of the scans with lower <= risk_score < upper.
get_risk_score_distribution(table, bins) ==
    LET bin_size == Rat(1, bins)
    IN  [ k \in 1..bins |->
            LET i == Range(bins)[k]
                lower == RMulInt(bin_size, i)
                upper == RMulInt(bin_size, i + 1)
            IN  [ range |-> <<lower, upper>>,
                  count |-> Cardinality({ r \in table :
                                /\ ~RLess(r.risk_score, lower)
                                /\ RLess(r.risk_score, upper) }) ] ]

\* The accuracy of a result without data (None).
NoneAccuracy == <<"<None>">>

\* round(x * 100, 2) for a rational x >= 0, halves to the even neighbour (no
\* half arises from fewer than 32 feedbacks).
RoundPercent(x) ==
    LET n == x[1] * 10000
        d == x[2]
        q == n \div d
        rest == n % d
        up == 2 * rest > d \/ (2 * rest = d /\ q % 2 = 1)
    IN  Rat(IF up THEN q + 1 ELSE q, 100)

\* func.count(ScanHistory.id) over the scans with the feedback given.
CountFeedback(table, kinds) == Cardinality({r \in table : r.user_feedback \in kinds})

\* get_model_accuracy_from_feedback dividing by all the feedback there is.
AccuracyOverAllFeedback(table) ==
    LET total_feedback == CountFeedback(table, FeedbackKinds)
        correct_predictions == CountFeedback(table, {"CORRECT"})
        incorrect_predictions == CountFeedback(table, {"INCORRECT"})
    IN  IF total_feedback = 0
        THEN [ total_feedback |-> 0, accuracy |-> NoneAccuracy,
               message |-> "No feedback data available" ]
        ELSE [ total_feedback |-> total_feedback,
               correct_predictions |-> correct_predictions,
               incorrect_predictions |-> incorrect_predictions,
               accuracy |-> RoundPercent(Rat(correct_predictions, total_feedback)) ]

\* AnalyticsEngine.get_model_accuracy_from_feedback()
get_model_accuracy_from_feedback(table) ==
    LET total_feedback == Cardinality({r \in table : r.user_feedback # None})
        correct_predictions == CountFeedback(table, {"CORRECT"})
        incorrect_predictions == CountFeedback(table, {"INCORRECT"})
        accuracy ==
            IF correct_predictions + incorrect_predictions > 0
            THEN Rat(correct_predictions, correct_predictions + incorrect_predictions)
            ELSE <<0, 1>>
    IN  IF total_feedback = 0
        THEN [ total_feedback |-> 0, accuracy |-> NoneAccuracy,
               message |-> "No feedback data available" ]
        ELSE [ total_feedback |-> total_feedback,
               correct_predictions |-> correct_predictions,
               incorrect_predictions |-> incorrect_predictions,
               accuracy |-> RoundPercent(accuracy) ]

\* A scan without user_id after the feedback given on it, if any.
LoggedScan(id, text, feedback, model) ==
    [ ScanRecord(id, None, "d1", text, classify_message(text, model), 0)
        EXCEPT !.user_feedback = feedback,
               !.feedback_timestamp = IF feedback = None THEN NoTime ELSE 0 ]

\* The logs of up to MaxLog scans that scans and feedback submissions leave.
Logs(model) ==
    UNION { { { LoggedScan(i, f[i][1], f[i][2], model) : i \in 1..n } :
                f \in [1..n -> {Strip(Hi), Strip(ClickHere)}
                                   \X (FeedbackKinds \cup {None})] } :
            n \in 0..MaxLog }

\* The server with a log, no request in flight.
InitAnalytics ==
    /\ ml_model \in {NoModel} \cup ModelArtifacts
    /\ now = 0
    /\ ops = 0
    /\ pc = [p \in Workers |-> "idle"]
    /\ loc = [p \in Workers |-> IdleLoc]
    /\ response = [op |-> "none", code |-> 0]
    /\ scan_history \in Logs(ml_model)
    /\ user_statistics = [u \in UserKeys |-> NoRow]
    /\ fed = [u \in UserKeys |-> NoFed]

\* A call of get_risk_score_distribution and what it returns.
RiskDistribution ==
    \E bins \in 1..MaxBins :
        /\ response' = [ op |-> "get_risk_score_distribution",
                         result |-> get_risk_score_distribution(scan_history, bins) ]
        /\ UNCHANGED <<ml_model, scan_history, user_statistics, now, ops, pc, loc, fed>>

\* A call of get_model_accuracy_from_feedback and what it returns.
ModelAccuracy ==
    /\ response' = [ op |-> "get_model_accuracy_from_feedback",
                     result |-> get_model_accuracy_from_feedback(scan_history) ]
    /\ UNCHANGED <<ml_model, scan_history, user_statistics, now, ops, pc, loc, fed>>

NextAnalytics ==
    \/ RiskDistribution
    \/ ModelAccuracy

SpecAnalytics == InitAnalytics /\ [][NextAnalytics]_vars

RECURSIVE SumCounts(_)
SumCounts(results) ==
    IF results = <<>> THEN 0 ELSE Head(results).count + SumCounts(Tail(results))

\* C15: the counts get_risk_score_distribution returns sum to the number of
\* scans, for every number of bins and every log, a risk_score of 1
\* included.
C15_BinCountsSumToTotal ==
    response.op = "get_risk_score_distribution" =>
        SumCounts(response.result) = Cardinality(scan_history)

Judged(kind) == Cardinality({r \in scan_history : r.user_feedback = kind})

\* C16: get_model_accuracy_from_feedback returns accuracy None whenever no
\* scan has feedback CORRECT or INCORRECT, also when some have UNSURE.
C16_NoDataIsNone ==
    response.op = "get_model_accuracy_from_feedback" =>
        (Judged("CORRECT") + Judged("INCORRECT") = 0 =>
             response.result.accuracy = NoneAccuracy)

\* C17 as stated: with a CORRECT or INCORRECT feedback in the log, the
\* accuracy returned is correct / (correct + incorrect) * 100.
C17_AccuracyExact ==
    response.op = "get_model_accuracy_from_feedback" =>
        LET c == Judged("CORRECT")
            i == Judged("INCORRECT")
            a == response.result.accuracy
        IN  c + i > 0 => a[1] * (c + i) = 100 * c * a[2]

\* C17: with a CORRECT or INCORRECT feedback in the log, the accuracy
\* returned is correct / (correct + incorrect) * 100 rounded to two
\* decimals, UNSURE not counted: a multiple of 0.01 within 0.005 of it, 100
\* when all of them are CORRECT and 0 when all are INCORRECT.
C17_AccuracyRounded ==
    response.op = "get_model_accuracy_from_feedback" =>
        LET c == Judged("CORRECT")
            i == Judged("INCORRECT")
            a == response.result.accuracy
            diff == a[1] * (c + i) - 100 * c * a[2]
        IN  c + i > 0 =>
                /\ 100 % a[2] = 0
                /\ 200 * diff <= a[2] * (c + i)
                /\ -200 * diff <= a[2] * (c + i)
                /\ i = 0 => a = <<100, 1>>
                /\ c = 0 => a = <<0, 1>>

\* C17's case: the accuracy of one CORRECT and two INCORRECT feedbacks was
\* returned: 33.33.
C17_Witness ==
    /\ response.op = "get_model_accuracy_from_feedback"
    /\ Judged("CORRECT") = 1
    /\ Judged("INCORRECT") = 2
    /\ response.result.accuracy = <<3333, 100>>

\* A committed feedback submission on scan r changes nothing of it but its
\* feedback columns.
ChangedByFeedback(r) ==
    /\ r.id \in Ids(scan_history')
    /\ SameButFeedback(r, GetScan(scan_history', r.id))
    /\ \E p \in Workers : FeedbackEnds(p) /\ loc[p].scan.id = r.id

\* A committed retention sweep removes scan r.
RemovedByRetention(r) ==
    /\ r.id \notin Ids(scan_history')
    /\ \E days \in SweepAges : delete_old_scans(days, TRUE)

\* A committed anonymization sweep clears the four identifying columns of
\* scan r and changes no other.
ClearedByAnonymization(r) ==
    /\ [r EXCEPT !.user_id = None, !.device_id = None, !.ip_address = None,
                 !.user_agent = None] \in scan_history'
    /\ \E days \in SweepAges : anonymize_old_data(days, TRUE)

\* C21 as stated: a stored scan is changed by feedback submission only
\* (user_feedback, feedback_timestamp) and removed by the retention sweep
\* only.
C21_OnlyFeedbackChanges ==
    [][\A r \in scan_history :
           \/ r \in scan_history'
           \/ ChangedByFeedback(r)
           \/ RemovedByRetention(r)]_vars

\* C21: a stored scan is changed by feedback submission (user_feedback,
\* feedback_timestamp) and by the anonymization sweep (user_id, device_id,
\* ip_address, user_agent set to null) only, and removed by the retention
\* sweep only.
C21_ScanRecordFrame ==
    [][\A r \in scan_history :
           \/ r \in scan_history'
           \/ ChangedByFeedback(r)
           \/ RemovedByRetention(r)
           \/ ClearedByAnonymization(r)]_vars

\* C21's case: a scan cleared by the anonymization sweep has feedback.
C21_Witness ==
    \E r \in scan_history :
        /\ r.user_id = None
        /\ r.ip_address = None
        /\ r.user_feedback \in FeedbackKinds
        /\ r.message_text = <<"h", "i">>

\* The scans of user u with the feedback given.
FeedbackOf(u, kinds) == {r \in ScansOf(u) : r.user_feedback \in kinds}

\* C28: requests served one at a time and before any sweep has a scan to
\* change (now = 0): each user's feedback_provided is the number of the
\* user's scans with feedback, correct_predictions and incorrect_predictions
\* the numbers of those with CORRECT and INCORRECT, also after feedback was
\* submitted twice for one scan.
C28_FeedbackCountsMatchLog ==
    (Quiet /\ now = 0) =>
        \A u \in Rows :
            /\ user_statistics[u].feedback_provided =
                   Cardinality(FeedbackOf(u, FeedbackKinds))
            /\ user_statistics[u].correct_predictions =
                   Cardinality(FeedbackOf(u, {"CORRECT"}))
            /\ user_statistics[u].incorrect_predictions =
                   Cardinality(FeedbackOf(u, {"INCORRECT"}))

\* ------------------------------------------------------- stored risk score

\* ScanHistory.to_dict, for the columns kept: risk_score rounded to 4 places.
to_dict(r) == [r EXCEPT !.risk_score = Round4(@)]

\* Probabilities that round(., 4) changes (1/3, 2/3) and that it keeps.
LongScores == { <<0, 1>>, <<1, 3>>, <<1, 2>>, <<2, 3>>, <<1, 1>> }

\* Trained models giving a short text s and a long one 1 - s.
LongModels ==
    { [loaded |-> TRUE, short |-> s, long |-> <<s[2] - s[1], s[2]>>] : s \in LongScores }

\* The server starts on an empty database, with one of these models or none.
InitStored ==
    /\ ml_model \in {NoModel} \cup LongModels
    /\ now = 0
    /\ ops = 0
    /\ pc = [p \in Workers |-> "idle"]
    /\ loc = [p \in Workers |-> IdleLoc]
    /\ response = [op |-> "none", code |-> 0]
    /\ scan_history = {}
    /\ user_statistics = [u \in UserKeys |-> NoRow]
    /\ fed = [u \in UserKeys |-> NoFed]

NextStored == Scan \/ Read \/ Update

SpecStored == InitStored /\ [][NextStored]_vars

\* The requests that are inside update_user_statistics.
Updating == {p \in Workers : pc[p] \in {"upd_read", "upd_commit"}}

\* C29: every scan written by scan_message has is_phishing exactly when its
\* stored risk_score is > 0.5, a confidence_level of LOW, MEDIUM or HIGH and
\* a risk_score in [0, 1] that is the classifier's value, not rounded (to_dict
\* is where it is rounded to 4 places); update_user_statistics is passed the
\* stored value.
C29_StoredUnrounded ==
    /\ \A r \in scan_history :
           LET c == classify_message(r.message_text, ml_model)
           IN  /\ r.is_phishing <=> Above(r.risk_score, 1, 2)
               /\ r.confidence_level \in {"LOW", "MEDIUM", "HIGH"}
               /\ 0 <= r.risk_score[1]
               /\ r.risk_score[1] <= r.risk_score[2]
               /\ r.risk_score = c.risk_score
               /\ to_dict(r).risk_score = Round4(c.risk_score)
    /\ \A p \in Updating :
           /\ loc[p].risk_score = GetScan(scan_history, loc[p].scan_id).risk_score
           /\ loc[p].is_phishing = GetScan(scan_history, loc[p].scan_id).is_phishing

\* C29's case: a scan stored with 2/3, phishing, shown as 0.6667 by to_dict,
\* and its user's row made from the stored value.
C29_Witness ==
    \E r \in scan_history :
        /\ r.risk_score = <<2, 3>>
        /\ r.is_phishing
        /\ to_dict(r).risk_score = <<6667, 10000>>
        /\ r.user_id \in Rows
        /\ user_statistics[r.user_id].highest_risk_score = <<2, 3>>

\* ------------------------------------------------- a request held up

\* The scan_message request of worker w1 that is held up: a scan of "hi" by
\* user "u1", second in the seeded database.
HeldScan(model) ==
    ScanRecord(2, "u1", "d1", Strip(Hi), classify_message(Strip(Hi), model), 0)

\* The state Scan and Read of w1 lead to from the seeded database: w1 has
\* committed its scan and loaded the row of "u1", and has not yet committed
\* its update.  The requests that arrive meanwhile are counted from here.
InitBurst ==
    /\ ml_model \in {NoModel} \cup ModelArtifacts
    /\ now = 0
    /\ ops = 0
    /\ response = [op |-> "none", code |-> 0]
    /\ LET r == SeedScan(ml_model)
           h == HeldScan(ml_model)
           row == NewStatistics(r.is_phishing, r.risk_score, r.created_at)
       IN  /\ scan_history = {r, h}
           /\ user_statistics = [u \in UserKeys |-> IF u = "u1" THEN row ELSE NoRow]
           /\ fed = [u \in UserKeys |->
                        IF u = "u1" THEN Fed(NoFed, r.risk_score) ELSE NoFed]
           /\ pc = [p \in Workers |-> IF p = "w1" THEN "upd_commit" ELSE "idle"]
           /\ loc = [p \in Workers |->
                        IF p = "w1"
                        THEN [ IdleLoc EXCEPT
                                 !.user_id = "u1",
                                 !.is_phishing = h.is_phishing,
                                 !.risk_score = h.risk_score,
                                 !.scan_id = h.id,
                                 !.stats = row ]
                        ELSE IdleLoc]

NextBurst == Scan \/ Read \/ Update

SpecBurst == InitBurst /\ [][NextBurst]_vars

\* InitBurst is a state of Spec (but for the count of operations).
BurstReached ==
    /\ scan_history = {SeedScan(ml_model), HeldScan(ml_model)}
    /\ pc = [p \in Workers |-> IF p = "w1" THEN "upd_commit" ELSE "idle"]
    /\ loc["w1"].stats = user_statistics["u1"]
    /\ loc["w1"].scan_id = 2
    /\ user_statistics["u1"].total_scans = 1

\* C27: a user's row is made with total_scans = 1; afterwards it is never
\* deleted, its first_scan_date never changes, its last_scan_date and its
\* total_scans never decrease, every update_user_statistics commit on it sets
\* last_scan_date, and first_scan_date <= last_scan_date.
C27_StatisticsMonotone ==
    [][\A u \in UserKeys :
           LET old == user_statistics[u]
               new == user_statistics'[u]
           IN  /\ (old = NoRow /\ new # NoRow) => new.total_scans = 1
               /\ old # NoRow =>
                      /\ new # NoRow
                      /\ new.first_scan_date = old.first_scan_date
                      /\ new.last_scan_date >= old.last_scan_date
                      /\ new.total_scans >= old.total_scans
                      /\ new.first_scan_date <= new.last_scan_date
                      /\ (\E p \in Workers :
                              /\ pc[p] = "upd_commit"
                              /\ loc[p].user_id = u
                              /\ response'.code = 200
                              /\ pc'[p] = "idle") => new.last_scan_date = now
      ]_vars

\* ---------------------------------------------------------------- queries

\* The most scans in a log the duplicate groups are asked of.
MaxScans == 5

Min(a, b) == IF a <= b THEN a ELSE b

SetMin(S) == CHOOSE m \in S : \A x \in S : m <= x

\* .limit(n) of a result, n >= 0.
Take(rows, n) == SubSeq(rows, 1, Min(n, Len(rows)))

\* The orders the <<key, row>> pairs P may come in, highest key first.
RECURSIVE DescendingPairs(_)
DescendingPairs(P) ==
    IF P = {} THEN {<<>>}
    ELSE UNION { { <<m>> \o rest : rest \in DescendingPairs(P \ {m}) } :
                     m \in {x \in P : \A y \in P : x[1] >= y[1]} }

\* The orders ORDER BY key DESC may return rows in, for the set P of
\* <<key, row>>: rows with one key come in any order.
Descending(P) == { [i \in DOMAIN f |-> f[i][2]] : f \in DescendingPairs(P) }

\* The order ORDER BY key returns rows of different keys in.
Ascending(P) ==
    LET f == CHOOSE g \in Descending(P) : TRUE
        n == Len(f)
    IN  [i \in 1..n |-> f[n + 1 - i]]

\* get_recent_scans ordering by oldest first.
RecentOldestFirst(table, hours, limit) ==
    LET cutoff_time == now - (hours \div 24)
        rows == {r \in table : r.created_at >= cutoff_time}
    IN  { Take(f, limit) : f \in Descending({<<0 - r.created_at, r>> : r \in rows}) }

\* DatabaseQueries.get_recent_scans: the results it may return; the clock
\* counts days, timedelta(hours=hours) is hours / 24 of them.
get_recent_scans(table, hours, limit) ==
    LET cutoff_time == now - (hours \div 24)
        rows == {r \in table : r.created_at >= cutoff_time}
    IN  { Take(f, limit) : f \in Descending({<<r.created_at, r>> : r \in rows}) }

\* The rows of get_duplicate_scans's query before ORDER BY and LIMIT, with
\* HAVING count >= 1.
GroupsOfOne(table, user_id) ==
    LET rows == IF Falsy(user_id) THEN table ELSE {r \in table : r.user_id = user_id}
        group(h) == {r \in rows : r.message_hash = h}
    IN  { [ message_hash |-> h,
            count |-> Cardinality(group(h)),
            first_scan |-> SetMin({r.created_at : r \in group(h)}) ] :
              h \in {r.message_hash : r \in rows} }

\* The rows of get_duplicate_scans's query before ORDER BY and LIMIT: GROUP BY
\* message_hash HAVING count > 1, of the user's scans if a user_id is given.
DuplicateGroups(table, user_id) ==
    LET rows == IF Falsy(user_id) THEN table ELSE {r \in table : r.user_id = user_id}
        group(h) == {r \in rows : r.message_hash = h}
    IN  { [ message_hash |-> h,
            count |-> Cardinality(group(h)),
            first_scan |-> SetMin({r.created_at : r \in group(h)}) ] :
              h \in {g \in {r.message_hash : r \in rows} : Cardinality(group(g)) > 1} }

\* DatabaseQueries.get_duplicate_scans: the results it may return.
get_duplicate_scans(table, user_id, limit) ==
    { Take(f, limit) :
          f \in Descending({<<g.count, g>> : g \in DuplicateGroups(table, user_id)}) }

\* calculate_phishing_trends with phishing_count taken over the whole window.
TrendsOverWindow(table, days) ==
    LET cutoff == now - days
        rows == {r \in table : r.created_at >= cutoff}
        bucket(d) == {r \in rows : r.created_at = d}
        result(d) ==
            LET total_scans == Cardinality(bucket(d))
                phishing_count == Cardinality({r \in rows : r.is_phishing})
            IN  [ date |-> d,
                  total_scans |-> total_scans,
                  phishing_count |-> phishing_count,
                  phishing_rate |-> RoundPercent(Rat(phishing_count, total_scans)) ]
    IN  Ascending({<<d, result(d)>> : d \in {r.created_at : r \in rows}})

\* AnalyticsEngine.calculate_phishing_trends; func.date(created_at) is
\* created_at, the clock counting days.
calculate_phishing_trends(table, days) ==
    LET cutoff == now - days
        rows == {r \in table : r.created_at >= cutoff}
        bucket(d) == {r \in rows : r.created_at = d}
        result(d) ==
            LET total_scans == Cardinality(bucket(d))
                phishing_count == Cardinality({r \in bucket(d) : r.is_phishing})
            IN  [ date |-> d,
                  total_scans |-> total_scans,
                  phishing_count |-> phishing_count,
                  phishing_rate |-> RoundPercent(Rat(phishing_count, total_scans)) ]
    IN  Ascending({<<d, result(d)>> : d \in {r.created_at : r \in rows}})

\* The scan of text that user_id sent at time t.
DatedScan(id, text, user_id, t, model) ==
    ScanRecord(id, user_id, "d1", text, classify_message(text, model), t)

\* The logs of up to MaxScans scans, one a day, that scan requests leave that
\* are sent by user "u1" and without user_id in turn.
RepeatLogs(model) ==
    UNION { { { DatedScan(i, f[i], IF i % 2 = 1 THEN "u1" ELSE None, i - 1, model) :
                    i \in 1..n } :
                f \in [1..n -> {Strip(Hi), Strip(ClickHere)}] } :
            n \in 0..MaxScans }

\* The days of n scans that start on day 0 and leave out no day.
Days(n) ==
    { t \in [1..n -> 0..(n - 1)] :
          /\ t[1] = 0
          /\ \A i \in 1..(n - 1) : t[i + 1] - t[i] \in {0, 1} }

\* The logs of up to MaxLog scans, some on one day, that scan requests
\* without user_id leave.
DatedLogs(model) ==
    UNION { { { DatedScan(i, f[i], None, t[i], model) : i \in 1..n } :
                f \in [1..n -> {Strip(Hi), Strip(ClickHere)}], t \in Days(n) } :
            n \in 1..MaxLog }

\* The call arguments.
HoursInputs == {0, 24, 48}
DaysInputs == {0, 1, 30}
LimitInputs == {0, 1, 2, 100}

\* The server with one of these logs, on the day of the last scan, no request
\* in flight.
InitQueries ==
    /\ ml_model \in {NoModel} \cup ModelArtifacts
    /\ ops = 0
    /\ pc = [p \in Workers |-> "idle"]
    /\ loc = [p \in Workers |-> IdleLoc]
    /\ response = [op |-> "none", code |-> 0]
    /\ scan_history \in RepeatLogs(ml_model) \cup DatedLogs(ml_model)
    /\ now = IF scan_history = {} THEN 0 ELSE SetMax({r.created_at : r \in scan_history})
    /\ user_statistics = [u \in UserKeys |-> NoRow]
    /\ fed = [u \in UserKeys |-> NoFed]

\* The first query of the process: a later one finds the same log.
FirstCall == response.op = "none"

\* A call of get_recent_scans and what it returns.
RecentScans ==
    \E hours \in HoursInputs, limit \in LimitInputs :
        \E result \in get_recent_scans(scan_history, hours, limit) :
            /\ FirstCall
            /\ response' = [ op |-> "get_recent_scans", hours |-> hours,
                             limit |-> limit, result |-> result ]
            /\ UNCHANGED <<ml_model, scan_history, user_statistics, now, ops, pc,
                           loc, fed>>

\* A call of get_duplicate_scans and what it returns.
DuplicateScans ==
    \E user_id \in {None, "", "u1", "u2"}, limit \in LimitInputs :
        \E result \in get_duplicate_scans(scan_history, user_id, limit) :
            /\ FirstCall
            /\ response' = [ op |-> "get_duplicate_scans", user_id |-> user_id,
                             limit |-> limit, result |-> result ]
            /\ UNCHANGED <<ml_model, scan_history, user_statistics, now, ops, pc,
                           loc, fed>>

\* A call of calculate_phishing_trends and what it returns.
PhishingTrends ==
    \E days \in DaysInputs :
        /\ FirstCall
        /\ response' = [ op |-> "calculate_phishing_trends", days |-> days,
                         result |-> calculate_phishing_trends(scan_history, days) ]
        /\ UNCHANGED <<ml_model, scan_history, user_statistics, now, ops, pc,
                       loc, fed>>

NextQueries ==
    \/ RecentScans
    \/ DuplicateScans
    \/ PhishingTrends

SpecQueries == InitQueries /\ [][NextQueries]_vars

\* The elements of a result.
Members(result) == {result[i] : i \in DOMAIN result}

\* The scans a duplicate query with user_id looks at.
ScansAsked(user_id) ==
    IF user_id \in {None, ""} THEN scan_history ELSE ScansOf(user_id)

\* C24: get_duplicate_scans returns fingerprints shared by more than one
\* scan (of the user, when one is passed), none twice, each with the number
\* of scans sharing it and their earliest created_at, in non-increasing order
\* of count; it returns all of them or limit of them, and none left out has
\* a higher count than one returned.  The scans of one group have one
\* message_text.
C24_DuplicateGroups ==
    response.op = "get_duplicate_scans" =>
        LET result == response.result
            rows == ScansAsked(response.user_id)
            shared(h) == {r \in rows : r.message_hash = h}
            dup == {h \in {r.message_hash : r \in rows} : Cardinality(shared(h)) > 1}
        IN  /\ \A g \in Members(result) :
                   /\ g.message_hash \in dup
                   /\ g.count = Cardinality(shared(g.message_hash))
                   /\ \E r \in shared(g.message_hash) : r.created_at = g.first_scan
                   /\ \A r \in shared(g.message_hash) : r.created_at >= g.first_scan
                   /\ \A r, q \in shared(g.message_hash) : r.message_text = q.message_text
            /\ \A i, j \in DOMAIN result :
                   /\ i < j => result[i].count >= result[j].count
                   /\ i # j => result[i].message_hash # result[j].message_hash
            /\ Len(result) = Min(response.limit, Cardinality(dup))
            /\ \A h \in dup \ {g.message_hash : g \in Members(result)} :
                   \A g \in Members(result) : g.count >= Cardinality(shared(h))

\* C24's case: of five scans, two share one fingerprint and the three sent
\* later another; the group of three comes first.
C24_Witness ==
    /\ response.op = "get_duplicate_scans"
    /\ response.user_id = None
    /\ Cardinality(scan_history) = 5
    /\ Len(response.result) = 2
    /\ response.result[1].count = 3
    /\ response.result[2].count = 2
    /\ response.result[2].first_scan < response.result[1].first_scan

\* C25: get_recent_scans(hours, limit) returns scans of the log with
\* created_at >= now - hours, none twice, in non-increasing order of
\* created_at; it returns all of them or limit of them, and none left out is
\* newer than one returned.
C25_RecentNewestFirst ==
    response.op = "get_recent_scans" =>
        LET result == response.result
            cutoff_time == now - (response.hours \div 24)
            recent == {r \in scan_history : r.created_at >= cutoff_time}
        IN  /\ Members(result) \subseteq recent
            /\ \A i, j \in DOMAIN result :
                   /\ i < j => result[i].created_at >= result[j].created_at
                   /\ i # j => result[i] # result[j]
            /\ Len(result) = Min(response.limit, Cardinality(recent))
            /\ \A r \in recent \ Members(result) :
                   \A q \in Members(result) : q.created_at >= r.created_at

\* C25's case: two scans in the window of 24 hours, one before it, limit 1:
\* the scan returned is the newest.
C25_Witness ==
    /\ response.op = "get_recent_scans"
    /\ response.hours = 24
    /\ response.limit = 1
    /\ Cardinality({r \in scan_history : r.created_at >= now - 1}) = 2
    /\ \E r \in scan_history : r.created_at < now - 1
    /\ Len(response.result) = 1
    /\ response.result[1].created_at = now

\* The scans of day d in the window of a trends query.
DayBucket(d) == {r \in scan_history : r.created_at = d /\ r.created_at >= now - response.days}

\* C26 as stated: every day bucket has phishing_rate =
\* phishing_count / total_scans * 100, 0 <= phishing_count <= total_scans and
\* total_scans > 0.
C26_RateExact ==
    response.op = "calculate_phishing_trends" =>
        \A b \in Members(response.result) :
            /\ b.total_scans > 0
            /\ 0 <= b.phishing_count
            /\ b.phishing_count <= b.total_scans
            /\ b.phishing_rate = Rat(b.phishing_count * 100, b.total_scans)

\* C26, amended: every day bucket counts the scans of its day in the window
\* and the phishing ones among them, has total_scans > 0 and
\* 0 <= phishing_count <= total_scans, and its phishing_rate is
\* phishing_count / total_scans * 100 rounded to two decimal places; every
\* day with a scan in the window has its bucket.
C26_RateRounded ==
    response.op = "calculate_phishing_trends" =>
        /\ \A b \in Members(response.result) :
               /\ b.total_scans = Cardinality(DayBucket(b.date))
               /\ b.phishing_count = Cardinality({r \in DayBucket(b.date) : r.is_phishing})
               /\ b.total_scans > 0
               /\ 0 <= b.phishing_count
               /\ b.phishing_count <= b.total_scans
               /\ LET exact == Rat(b.phishing_count * 100, b.total_scans)
                      diff == RAdd(b.phishing_rate, <<0 - exact[1], exact[2]>>)
                  IN  /\ 100 % b.phishing_rate[2] = 0
                      /\ Abs(diff[1]) * 200 <= diff[2]
        /\ \A r \in scan_history :
               r.created_at >= now - response.days =>
                   \E b \in Members(response.result) : b.date = r.created_at

\* C26's case: a day with three scans, one of them phishing: 33.33.
C26_Witness ==
    /\ response.op = "calculate_phishing_trends"
    /\ \E b \in Members(response.result) :
           /\ b.total_scans = 3
           /\ b.phishing_count = 1
           /\ b.phishing_rate = <<3333, 100>>

\* ---------------------------------------------------------------- history

\* get_scan_history's cap on limit.
MaxPage == 200

\* query: the scans of user_id, the phishing ones if phishing_only.
HistoryQuery(table, user_id, phishing_only) ==
    {r \in table : r.user_id = user_id /\ (phishing_only => r.is_phishing)}

\* LIMIT limit OFFSET offset of the rows, offset >= 0; SQLite takes a negative
\* LIMIT for no limit.
LimitOffset(rows, limit, offset) ==
    LET rest == IF offset >= Len(rows) THEN <<>> ELSE SubSeq(rows, offset + 1, Len(rows))
    IN  IF limit < 0 THEN rest ELSE Take(rest, limit)

\* query.order_by(created_at.desc()).limit(limit).offset(offset).all(): the
\* pages it may return.
HistoryPage(table, user_id, limit, offset, phishing_only) ==
    { LimitOffset(f, limit, offset) :
          f \in Descending({<<r.created_at, r>> :
                               r \in HistoryQuery(table, user_id, phishing_only)}) }

\* get_scan_history, up to the page it reads; without user_id it answers 400.
HistoryRequest(p, user_id, limit, offset, phishing_only) ==
    /\ pc[p] = "idle"
    /\ IF Falsy(user_id)
       THEN /\ response' = [op |-> "history", code |-> 400, user_id |-> user_id]
            /\ UNCHANGED <<pc, loc>>
       ELSE \E scans \in HistoryPage(scan_history, user_id, Min(limit, MaxPage),
                                     offset, phishing_only) :
                /\ pc' = [pc EXCEPT ![p] = "hist_count"]
                /\ loc' = [loc EXCEPT ![p] =
                       [ IdleLoc EXCEPT
                           !.user_id = user_id,
                           !.limit = Min(limit, MaxPage),
                           !.offset = offset,
                           !.phishing_only = phishing_only,
                           !.scans = scans ]]
                /\ UNCHANGED response
    /\ UNCHANGED <<ml_model, scan_history, user_statistics, now, ops, fed>>

\* get_scan_history: total_count = query.count(), a statement of its own, and
\* the response.
HistoryCount(p) ==
    /\ pc[p] = "hist_count"
    /\ LET total_count ==
               Cardinality(HistoryQuery(scan_history, loc[p].user_id,
                                        loc[p].phishing_only))
       IN  response' =
               [ op |-> "history",
                 code |-> 200,
                 user_id |-> loc[p].user_id,
                 phishing_only |-> loc[p].phishing_only,
                 scans |-> [i \in DOMAIN loc[p].scans |-> to_dict(loc[p].scans[i])],
                 total_count |-> total_count,
                 limit |-> loc[p].limit,
                 offset |-> loc[p].offset,
                 has_more |-> (loc[p].offset + loc[p].limit) < total_count ]
    /\ Finish(p)
    /\ UNCHANGED <<ml_model, scan_history, user_statistics, now, ops, fed>>

\* The query parameters GET /api/history is sent with.
HistoryUsers == {None, "", "u1", "u2"}
HistoryLimits == {-1, 1, 2, 50, 500}
HistoryOffsets == {0, 1}

History ==
    \E p \in Workers, user_id \in HistoryUsers, limit \in HistoryLimits,
       offset \in HistoryOffsets, phishing_only \in BOOLEAN :
        /\ FirstCall
        /\ Quiet
        /\ HistoryRequest(p, user_id, limit, offset, phishing_only)

HistoryDone == \E p \in Workers : HistoryCount(p)

\* GET /api/history on a log that no request changes meanwhile.
NextHistory == History \/ HistoryDone

SpecHistory == InitQueries /\ [][NextHistory]_vars

Max(a, b) == IF a >= b THEN a ELSE b

\* The scans a history response is about.
Matching == HistoryQuery(scan_history, response.user_id, response.phishing_only)

\* C30: get_scan_history answers a request without user_id with an error and
\* no scans; otherwise with scans of the user (phishing ones if
\* phishing_only), newest first, none twice, those after the offset newest,
\* at most min(limit, 200) of them and that many if there are,
\* total_count = the number of matching scans, and has_more exactly when
\* offset + limit < total_count.
C30_HistoryPage ==
    response.op = "history" =>
        IF response.user_id \in {None, ""}
        THEN response.code = 400 /\ DOMAIN response = {"op", "code", "user_id"}
        ELSE LET scans == response.scans
                 n == Len(scans)
             IN  /\ response.code = 200
                 /\ \A s \in Members(scans) : \E r \in Matching : s = to_dict(r)
                 /\ \A i, j \in DOMAIN scans :
                        /\ i < j => scans[i].created_at >= scans[j].created_at
                        /\ i # j => scans[i].id # scans[j].id
                 /\ n > 0 =>
                        /\ Cardinality({r \in Matching :
                               r.created_at > scans[1].created_at}) <= response.offset
                        /\ Cardinality({r \in Matching :
                               r.created_at >= scans[1].created_at}) > response.offset
                        /\ \A r \in Matching :
                               \/ to_dict(r) \in Members(scans)
                               \/ r.created_at >= scans[1].created_at
                               \/ r.created_at <= scans[n].created_at
                 /\ n <= Min(response.limit, MaxPage)
                 /\ n = Min(Min(response.limit, MaxPage),
                            Max(0, Cardinality(Matching) - response.offset))
                 /\ response.total_count = Cardinality(Matching)
                 /\ response.has_more <=>
                        (response.offset + response.limit < response.total_count)

\* C30 holds of the requests with limit >= 0.
HistoryPageOfLimit ==
    (response.op = "history" /\ response.code = 200 /\ response.limit < 0)
        \/ C30_HistoryPage

\* ------------------------------------------- history beside scans and sweeps

\* The server starts a day after the scan of "u1" that the database holds.
InitReaders ==
    /\ ml_model \in {NoModel} \cup ModelArtifacts
    /\ now = 1
    /\ ops = 0
    /\ pc = [p \in Workers |-> "idle"]
    /\ loc = [p \in Workers |-> IdleLoc]
    /\ response = [op |-> "none", code |-> 0]
    /\ LET r == SeedScan(ml_model)
       IN  /\ scan_history = {r}
           /\ user_statistics =
                  [u \in UserKeys |->
                      IF u = r.user_id
                      THEN NewStatistics(r.is_phishing, r.risk_score, r.created_at)
                      ELSE NoRow]
           /\ fed = [u \in UserKeys |->
                        IF u = r.user_id THEN Fed(NoFed, r.risk_score) ELSE NoFed]

\* Scans of "hi" by "u1".
ReaderScan ==
    \E p \in Workers, ok \in BOOLEAN : ScanRequest(p, Hi, "u1", "d1", ok)

\* GET /api/history?user_id=u1 with the default limit and offset, and without
\* user_id.
ReaderHistory ==
    \E p \in Workers, user_id \in {None, "u1"} :
        HistoryRequest(p, user_id, 50, 0, FALSE)

\* History requests served beside scan requests and retention sweeps.
NextReaders ==
    \/ ReaderScan
    \/ Read
    \/ Update
    \/ ReaderHistory
    \/ HistoryDone
    \/ Retention

SpecReaders == InitReaders /\ [][NextReaders]_vars

\* C22, for the history page: the scans and the total_count of a response
\* are those of one state of the log, so a page from offset 0 that is not
\* full holds total_count scans.
C22_PageOfOneState ==
    (response.op = "history" /\ response.code = 200) =>
        Len(response.scans) =
            Min(response.limit, Max(0, response.total_count - response.offset))

\* The scans that the requests in flight have read.
ScansRead == UNION { Members(loc[p].scans) : p \in Workers }

\* C23: a step adds at most one scan, a scan request that succeeds adds one,
\* and the id of a scan added is greater than the id of every scan made
\* before: those in the log and those that a request read from it,
\* which a retention sweep may have deleted since.
C23_IdsIncrease ==
    [][/\ Cardinality(scan_history' \ scan_history) <= 1
       /\ (\E p \in Workers : ScanRequest(p, Hi, "u1", "d1", TRUE)) =>
              Cardinality(scan_history' \ scan_history) = 1
       /\ \A r \in scan_history' \ scan_history :
              \A q \in scan_history \cup ScansRead : r.id > q.id
      ]_vars

====
